---- MODULE Spec2Model ----
(***************************************************************************)
(* State machine of the DeepAgent session state (src/agent_state.py), of   *)
(* the sub-agent delegation tool (src/sub_agent_delegation.py), of the     *)
(* rate limiter of src/financial_tools.py and of the planning tool         *)
(* write_todos of src/todo_planning_agent.py.                              *)
(*                                                                         *)
(* Python values are modelled as follows.                                  *)
(*   str            a TLA+ string (Len and \o act on strings as in Python) *)
(*   dict           a function whose DOMAIN is the set of keys             *)
(*   list           a sequence                                             *)
(*   Optional[x]    <<>> for None, <<x>> for a value x                     *)
(*   datetime       the number of seconds since the session started; the   *)
(*                  isoformat()/fromisoformat() pair is exact on naive     *)
(*                  datetimes, so a timestamp is kept as that number       *)
(***************************************************************************)
EXTENDS Integers, Sequences, FiniteSets, TLC

VARIABLES
    now,                  \* the wall clock read by datetime.now()
    todos,                \* state["todos"]
    files,                \* state["files"]
    file_operations_log,  \* state["file_operations_log"]
    financial_cache,      \* state["financial_cache"]
    sub_agents,           \* state["sub_agents"]
    active_sub_agents,    \* state["active_sub_agents"]
    iteration_count,      \* state["iteration_count"]
    max_iterations,       \* state["max_iterations"]
    last_activity,        \* state["last_activity"]
    SUB_AGENTS,           \* the module-level registry of sub_agent_delegation.py (its keys, in insertion order)
    ret,                  \* the last operation: its name, its arguments and what it returned
    last_put,             \* history: for each (symbol, data_type), the last cache_financial_data call on it
    other_session,        \* the state of a second session, made by another create_initial_state call
    limiter               \* the closure of rate_limit around get_stock_price, its callers and their clock

vars == <<now, todos, files, file_operations_log, financial_cache, sub_agents,
          active_sub_agents, iteration_count, max_iterations, last_activity,
          SUB_AGENTS, ret, last_put, other_session, limiter>>

stateVars == <<todos, files, file_operations_log, financial_cache, sub_agents,
               active_sub_agents, iteration_count, max_iterations, last_activity>>

----------------------------------------------------------------------------
(* Python values *)

None == <<>>

Some(x) == <<x>>

EmptyDict == <<>>

\* d[k] = v
DictSet(d, k, v) == [x \in (DOMAIN d) \cup {k} |-> IF x = k THEN v ELSE d[x]]

\* del d[k]
DictDel(d, k) == [x \in (DOMAIN d) \ {k} |-> d[x]]

\* d.update(p)
DictUpdate(d, p) == [x \in (DOMAIN d) \cup (DOMAIN p) |-> IF x \in DOMAIN p THEN p[x] ELSE d[x]]

\* bool(d) of a dict
Truthy(d) == DOMAIN d # {}

Range(s) == {s[i] : i \in DOMAIN s}

----------------------------------------------------------------------------
(* Bounds of the model and the inputs the operations are tried on *)

MaxNowDelegation == 1

DelegationTicks == {1}

DefaultMaxIterations == 50

\* the names initialize_sub_agents registers, in its order
SpecialistNames == <<"stock_analyst", "portfolio_manager", "risk_assessor", "market_researcher">>

\* names delegation is tried with
DelegateNames == {"stock_analyst", "unknown_agent"}

\* names registered in the session registry
RegisterNames == {"stock_analyst", "unknown_agent"}

TaskDescriptions == {"analyze AAPL"}

\* what sub_agent.invoke(...) can do: raise, or return a result. A result is a dict;
\* its "messages", when present, is a list of messages, each <<content>> or, for an
\* object without a content attribute, <<>>
InvokeOutcomes ==
    {[raised |-> FALSE, error |-> "", result |-> [messages |-> <<Some("rec: BUY")>>]],
     [raised |-> FALSE, error |-> "", result |-> [rec |-> "BUY"]],
     [raised |-> FALSE, error |-> "", result |-> EmptyDict],
     [raised |-> FALSE, error |-> "", result |-> [messages |-> <<None>>]],
     [raised |-> FALSE, error |-> "", result |-> [messages |-> <<>>]],
     [raised |-> TRUE, error |-> "rate limited", result |-> EmptyDict]}

ResultPayloads == {[rec |-> "BUY"], EmptyDict}

AgentStatuses == {"idle", "working", "completed", "error"}

----------------------------------------------------------------------------
(* create_initial_state *)

\* the collections and the last activity of a session as create_initial_state makes
\* them: each call builds new, empty containers
InitialSession ==
    [todos |-> <<>>, files |-> EmptyDict, file_operations_log |-> <<>>,
     financial_cache |-> EmptyDict, sub_agents |-> EmptyDict, last_activity |-> 0]

\* time.time() when the module is imported, far from the 0.0 last_called starts with
ImportTime == 100

\* rate_limit(calls_per_minute=4) as the decorator leaves it: last_called = [0.0]; no
\* caller is inside the wrapper and the wrapped function has not been called
InitialLimiter ==
    [time |-> ImportTime, last_called |-> 0, pc |-> <<>>, calls |-> <<>>]

Init ==
    /\ now = 0
    /\ todos = <<>>
    /\ files = EmptyDict
    /\ file_operations_log = <<>>
    /\ financial_cache = EmptyDict
    /\ sub_agents = EmptyDict
    /\ active_sub_agents = <<>>
    /\ iteration_count = 0
    /\ max_iterations = DefaultMaxIterations
    /\ last_activity = now
    /\ SUB_AGENTS = <<>>
    /\ ret = [op |-> "create_initial_state"]
    /\ last_put = EmptyDict
    /\ other_session = InitialSession
    /\ limiter = InitialLimiter

\* the clock advances by d seconds, up to max; no operation runs
Tick(d, max) ==
    /\ d > 0
    /\ now + d <= max
    /\ now' = now + d
    /\ UNCHANGED <<stateVars, SUB_AGENTS, ret, last_put, other_session, limiter>>

----------------------------------------------------------------------------
(* Specialist registry of the session: register_sub_agent, update_sub_agent_status *)

SubAgentInfo(name, description, tools, t) ==
    [name |-> name, description |-> description, tools |-> tools, status |-> "idle",
     created_at |-> t, last_active |-> t, results |-> None]

\* a name that is registered again keeps its status and its results
Registered_Merge(registry, name, description, tools, t) ==
    DictSet(registry, name,
            IF name \in DOMAIN registry
            THEN [SubAgentInfo(name, description, tools, t)
                     EXCEPT !.status = registry[name].status,
                            !.results = registry[name].results]
            ELSE SubAgentInfo(name, description, tools, t))

\* state["sub_agents"][name] = sub_agent
Registered(registry, name, description, tools, t) ==
    DictSet(registry, name, SubAgentInfo(name, description, tools, t))

\* replaced tells whether the name was registered before the call
register_sub_agent(name, description, tools) ==
    /\ sub_agents' = Registered(sub_agents, name, description, tools, now)
    /\ last_activity' = now
    /\ ret' = [op |-> "register_sub_agent", agent |-> name,
               replaced |-> name \in DOMAIN sub_agents]
    /\ UNCHANGED <<now, other_session, limiter, todos, files, file_operations_log, financial_cache,
                   active_sub_agents, iteration_count, max_iterations, SUB_AGENTS, last_put>>

\* an unknown name gets a record
UpdatedSubAgents_Upsert(registry, agent_name, status, results, t) ==
    DictSet(registry, agent_name,
            [name |-> agent_name, description |-> "", tools |-> <<>>, status |-> status,
             created_at |-> t, last_active |-> t, results |-> results])

\* results is an Optional[dict]; "if results:" is false for None and for an empty dict
UpdatedSubAgents(registry, agent_name, status, results, t) ==
    IF agent_name \in DOMAIN registry
    THEN [registry EXCEPT ![agent_name] =
            [@ EXCEPT !.status = status,
                      !.last_active = t,
                      !.results = IF results # None /\ Truthy(results[1]) THEN results ELSE @]]
    ELSE registry

update_sub_agent_status(agent_name, status, results) ==
    /\ sub_agents' = UpdatedSubAgents(sub_agents, agent_name, status, results, now)
    /\ last_activity' = now
    /\ ret' = [op |-> "update_sub_agent_status", agent |-> agent_name, status |-> status,
               results |-> results]
    /\ UNCHANGED <<now, other_session, limiter, todos, files, file_operations_log, financial_cache,
                   active_sub_agents, iteration_count, max_iterations, SUB_AGENTS, last_put>>

----------------------------------------------------------------------------
(* The delegation tool: initialize_sub_agents, task *)

\* k of the four create_*_agent calls succeed before one raises (k = 4: none raises);
\* an entry already present keeps its place in the dict
initialize_sub_agents(k) ==
    /\ SUB_AGENTS' = SUB_AGENTS \o
          SelectSeq(SubSeq(SpecialistNames, 1, k), LAMBDA n : n \notin Range(SUB_AGENTS))
    /\ ret' = [op |-> "initialize_sub_agents", raised |-> k < Len(SpecialistNames)]
    /\ UNCHANGED <<now, other_session, limiter, stateVars, last_put>>

\* the sub_agent.invoke calls one task call makes, each by its argument: one call,
\* inside the try block, whatever its outcome
InvokeCalls_Retry(task_description, outcome) ==
    IF outcome.raised THEN <<task_description, task_description>> ELSE <<task_description>>

InvokeCalls(task_description, outcome) == <<task_description>>

\* the try block of task, for an agent_name found in the registry, when sub_agent.invoke
\* behaves as outcome. kind is the return statement taken, text the string returned
\* (without its emoji prefix), known the list a not-found message carries, calls the
\* sub_agent.invoke calls made
TaskReturn(agent_name, task_description, outcome) ==
    LET R(kind, text) ==
            [op |-> "task", agent |-> agent_name, kind |-> kind, text |-> text,
             known |-> <<>>, calls |-> InvokeCalls(task_description, outcome),
             outcome |-> outcome]
        result == outcome.result
        Error(e) == R("error", "Error in sub-agent " \o agent_name \o ": " \o e)
        Delegated == R("delegated",
                       "Task delegated to " \o agent_name \o " - check detailed output above")
    IN  IF outcome.raised
        THEN Error(outcome.error)
        ELSE IF Truthy(result) /\ "messages" \in DOMAIN result
        THEN IF result.messages = <<>>
             THEN Error("list index out of range")
             ELSE LET last_message == result.messages[Len(result.messages)]
                  IN  IF last_message # None
                      THEN R("results",
                             "Sub-agent '" \o agent_name \o "' results:\n" \o last_message[1])
                      ELSE Delegated
        ELSE Delegated

NotFound(registry, agent_name, outcome) ==
    [op |-> "task", agent |-> agent_name, kind |-> "not_found",
     text |-> "Sub-agent '" \o agent_name \o "' not found. Available agents: ",
     known |-> registry, calls |-> <<>>, outcome |-> outcome]

\* an unknown name is routed to the first registered specialist
TaskResult_Fallback(registry, agent_name, task_description, outcome) ==
    IF agent_name \in Range(registry)
    THEN TaskReturn(agent_name, task_description, outcome)
    ELSE IF registry # <<>>
    THEN [TaskReturn(registry[1], task_description, outcome) EXCEPT !.agent = agent_name]
    ELSE NotFound(registry, agent_name, outcome)

\* what task(agent_name, task_description) returns, SUB_AGENTS holding the names of registry
TaskResult(registry, agent_name, task_description, outcome) ==
    IF agent_name \notin Range(registry)
    THEN NotFound(registry, agent_name, outcome)
    ELSE TaskReturn(agent_name, task_description, outcome)

\* task reads SUB_AGENTS and writes nothing: not the session state, not SUB_AGENTS
task(agent_name, task_description, outcome) ==
    /\ ret' = TaskResult(SUB_AGENTS, agent_name, task_description, outcome)
    /\ UNCHANGED <<now, other_session, limiter, stateVars, SUB_AGENTS, last_put>>

NextDelegation ==
    \/ \E d \in DelegationTicks : Tick(d, MaxNowDelegation)
    \/ \E k \in 0..Len(SpecialistNames) : initialize_sub_agents(k)
    \/ \E n \in RegisterNames : register_sub_agent(n, "specialist", <<"get_stock_price">>)
    \/ \E n \in RegisterNames, s \in AgentStatuses, r \in {None} \cup {Some(p) : p \in ResultPayloads} :
          update_sub_agent_status(n, s, r)
    \/ \E n \in DelegateNames, t \in TaskDescriptions, o \in InvokeOutcomes : task(n, t, o)

SpecDelegation == Init /\ [][NextDelegation]_vars

----------------------------------------------------------------------------
(* Claims on delegation *)

\* this step is a call of operation op (the clock does not move during a call, and
\* Tick alone moves it)
Called(op) == ret'.op = op /\ now' = now

\* the last operation was a delegation to a specialist that SUB_AGENTS holds and that
\* the session registry has a record of
DelegatedToRegistered ==
    /\ ret.op = "task"
    /\ ret.agent \in Range(SUB_AGENTS)
    /\ ret.agent \in DOMAIN sub_agents

\* C1: after a delegation to a registered specialist whose capability returned a
\* payload P without raising, the session registry record of the specialist has status
\* "completed" and last result P, and the caller receives the results message.
C1_SuccessIsRecorded ==
    (DelegatedToRegistered /\ ~ret.outcome.raised) =>
        /\ sub_agents[ret.agent].status = "completed"
        /\ sub_agents[ret.agent].results = Some(ret.outcome.result)
        /\ ret.kind = "results"

\* C2: a delegation to a name SUB_AGENTS does not hold returns the not-found outcome
\* with the list of known names, calls no specialist, and leaves SUB_AGENTS and the
\* session registry as they were.
C2_UnknownNameNotFound ==
    [][(Called("task") /\ ret'.agent \notin Range(SUB_AGENTS)) =>
          /\ ret'.kind = "not_found"
          /\ ret'.known = SUB_AGENTS
          /\ ret'.calls = <<>>
          /\ SUB_AGENTS' = SUB_AGENTS
          /\ sub_agents' = sub_agents]_vars

C2_Witness ==
    /\ ret.op = "task"
    /\ ret.kind = "not_found"
    /\ ret.agent = "unknown_agent"
    /\ ret.known = SpecialistNames
    /\ "stock_analyst" \in DOMAIN sub_agents

\* C3: after a delegation to a registered specialist whose capability raised, the
\* caller holds a failure outcome, and the session registry record of the specialist
\* has status "error" (never "working") with a diagnostic payload as last result.
C3_FailureIsRecorded ==
    (DelegatedToRegistered /\ ret.outcome.raised) =>
        /\ ret.kind = "error"
        /\ sub_agents[ret.agent].status = "error"
        /\ sub_agents[ret.agent].results # None

\* C4: a delegation calls the specialist exactly once when SUB_AGENTS holds the name
\* and never when it does not; a call that failed is not repeated.
C4_AtMostOneInvocation ==
    [][Called("task") =>
          /\ Len(ret'.calls) = (IF ret'.agent \in Range(SUB_AGENTS) THEN 1 ELSE 0)
          /\ ret'.kind = "error" => Len(ret'.calls) = 1]_vars

C4_Witness ==
    /\ ret.op = "task"
    /\ ret.kind = "error"
    /\ ret.outcome.raised
    /\ Len(ret.calls) = 1

\* C17: register_sub_agent leaves under the name a record with status "idle", no
\* results and the time of the call; a record that was under the name is replaced
\* whole, and the record of every other specialist stays as it was.
C17_RegisterOverwrites ==
    [][Called("register_sub_agent") =>
          LET n == ret'.agent
          IN  /\ DOMAIN sub_agents' = DOMAIN sub_agents \cup {n}
              /\ sub_agents'[n].name = n
              /\ sub_agents'[n].status = "idle"
              /\ sub_agents'[n].results = None
              /\ sub_agents'[n].created_at = now
              /\ sub_agents'[n].last_active = now
              /\ \A m \in DOMAIN sub_agents \ {n} : sub_agents'[m] = sub_agents[m]]_vars

\* a specialist was registered again, next to another one that has completed with
\* results
C17_Witness ==
    /\ ret.op = "register_sub_agent"
    /\ ret.replaced
    /\ sub_agents[ret.agent].status = "idle"
    /\ sub_agents[ret.agent].created_at > 0
    /\ \E m \in DOMAIN sub_agents :
          /\ m # ret.agent
          /\ sub_agents[m].status = "completed"
          /\ sub_agents[m].results # None
          /\ sub_agents[m].created_at = 0

\* C18: update_sub_agent_status on a registered name sets the status of its record;
\* when results are given, an empty dict included, the record holds them afterwards,
\* when none are given the results of the record stay; the records of the other
\* specialists stay as they were.
C18_ResultIsStored ==
    [][(Called("update_sub_agent_status") /\ ret'.agent \in DOMAIN sub_agents) =>
          LET n == ret'.agent
          IN  /\ DOMAIN sub_agents' = DOMAIN sub_agents
              /\ sub_agents'[n].status = ret'.status
              /\ ret'.results # None => sub_agents'[n].results = ret'.results
              /\ ret'.results = None => sub_agents'[n].results = sub_agents[n].results
              /\ \A m \in DOMAIN sub_agents \ {n} : sub_agents'[m] = sub_agents[m]]_vars

\* C18 but for the empty dict: the same with "results are given" read as "non-empty
\* results are given"
C18_NonEmptyResultIsStored ==
    [][(Called("update_sub_agent_status") /\ ret'.agent \in DOMAIN sub_agents) =>
          LET n == ret'.agent
              given == ret'.results # None /\ ret'.results # Some(EmptyDict)
          IN  /\ DOMAIN sub_agents' = DOMAIN sub_agents
              /\ sub_agents'[n].status = ret'.status
              /\ given => sub_agents'[n].results = ret'.results
              /\ ~given => sub_agents'[n].results = sub_agents[n].results
              /\ \A m \in DOMAIN sub_agents \ {n} : sub_agents'[m] = sub_agents[m]]_vars

----------------------------------------------------------------------------
(* Expiring cache: cache_financial_data, get_cached_financial_data *)

MaxNowCache == 120

CacheTicks == {60}

SecondsPerMinute == 60

\* the (symbol, data_type) pairs the cache is tried on
CachePairs == {<<"BRK", "price">>, <<"BRK_B", "price">>, <<"BRK", "B_price">>}

Symbols == {c[1] : c \in CachePairs}

DataTypes == {c[2] : c \in CachePairs}

CachePayloads == {[p |-> 100], [p |-> 101]}

ExpiryMinutes == {1, 2}

\* cache_key = f"{symbol}_{data_type}"
CacheKey(symbol, data_type) == symbol \o "_" \o data_type

\* now + timedelta(minutes=expiry_minutes)
Expiry(t, expiry_minutes) == t + SecondsPerMinute * expiry_minutes

FinancialDataCache(symbol, data_type, data, t, expiry_minutes) ==
    [symbol |-> symbol, data_type |-> data_type, data |-> data, timestamp |-> t,
     expiry |-> Expiry(t, expiry_minutes)]

cache_financial_data(symbol, data_type, data, expiry_minutes) ==
    /\ financial_cache' = DictSet(financial_cache, CacheKey(symbol, data_type),
                                  FinancialDataCache(symbol, data_type, data, now, expiry_minutes))
    /\ last_activity' = now
    /\ ret' = [op |-> "cache_financial_data", symbol |-> symbol, data_type |-> data_type,
               data |-> data, expiry_minutes |-> expiry_minutes]
    /\ last_put' = DictSet(last_put, <<symbol, data_type>>,
                           [data |-> data, at |-> now, expiry_minutes |-> expiry_minutes])
    /\ UNCHANGED <<now, other_session, limiter, todos, files, file_operations_log, sub_agents, active_sub_agents,
                   iteration_count, max_iterations, SUB_AGENTS>>

\* the entry under cache_key is there and now < expiry
Fresh(cache, cache_key, t) == cache_key \in DOMAIN cache /\ t < cache[cache_key].expiry

\* what get_cached_financial_data returns at time t
CachedData(cache, symbol, data_type, t) ==
    IF Fresh(cache, CacheKey(symbol, data_type), t)
    THEN Some(cache[CacheKey(symbol, data_type)].data)
    ELSE None

\* the cache get_cached_financial_data leaves at time t: an expired entry is deleted
CacheAfterGet(cache, symbol, data_type, t) ==
    IF CacheKey(symbol, data_type) \in DOMAIN cache /\ ~Fresh(cache, CacheKey(symbol, data_type), t)
    THEN DictDel(cache, CacheKey(symbol, data_type))
    ELSE cache

\* last_activity is not written
get_cached_financial_data(symbol, data_type) ==
    /\ financial_cache' = CacheAfterGet(financial_cache, symbol, data_type, now)
    /\ ret' = [op |-> "get_cached_financial_data", symbol |-> symbol, data_type |-> data_type,
               val |-> CachedData(financial_cache, symbol, data_type, now)]
    /\ UNCHANGED <<now, other_session, limiter, todos, files, file_operations_log, sub_agents, active_sub_agents,
                   iteration_count, max_iterations, last_activity, SUB_AGENTS, last_put>>

NextCache ==
    \/ \E d \in CacheTicks : Tick(d, MaxNowCache)
    \/ \E c \in CachePairs, p \in CachePayloads, e \in ExpiryMinutes :
          cache_financial_data(c[1], c[2], p, e)
    \/ \E c \in CachePairs : get_cached_financial_data(c[1], c[2])

SpecCache == Init /\ [][NextCache]_vars

----------------------------------------------------------------------------
(* Claims on the cache *)

CacheOps == {"cache_financial_data", "get_cached_financial_data"}

\* C5: a get on (symbol, data_type) whose last put had a positive expiry returns that
\* put's payload and keeps the entry when issued before the put's time plus its
\* expiry, and returns None and leaves no entry under the key when issued at or
\* after it.
C5_GetAfterPut ==
    [][\A s \in Symbols, k \in DataTypes :
          (/\ Called("get_cached_financial_data")
           /\ ret'.symbol = s /\ ret'.data_type = k
           /\ <<s, k>> \in DOMAIN last_put
           /\ last_put[<<s, k>>].expiry_minutes > 0) =>
             LET put == last_put[<<s, k>>]
                 key == CacheKey(s, k)
             IN  IF now < put.at + SecondsPerMinute * put.expiry_minutes
                 THEN /\ ret'.val = Some(put.data)
                      /\ key \in DOMAIN financial_cache'
                      /\ financial_cache'[key] = financial_cache[key]
                 ELSE /\ ret'.val = None
                      /\ key \notin DOMAIN financial_cache']_vars

\* C6: a put or a get on one (symbol, data_type) changes neither the entry of another
\* (symbol, data_type) nor what a get on it returns.
C6_KeyedByPair ==
    [][\A s1 \in Symbols, k1 \in DataTypes :
          (ret'.op \in CacheOps /\ now' = now /\ ret'.symbol = s1 /\ ret'.data_type = k1) =>
             \A s2 \in Symbols, k2 \in DataTypes :
                <<s2, k2>> # <<s1, k1>> =>
                   /\ CachedData(financial_cache', s2, k2, now) = CachedData(financial_cache, s2, k2, now)
                   /\ (CacheKey(s2, k2) \in DOMAIN financial_cache') = (CacheKey(s2, k2) \in DOMAIN financial_cache)
                   /\ CacheKey(s2, k2) \in DOMAIN financial_cache =>
                          financial_cache'[CacheKey(s2, k2)] = financial_cache[CacheKey(s2, k2)]]_vars

\* C23: an entry leaves the cache only in a get on its own (symbol, data_type) at or
\* after its expiry, and its payload changes only in a put on its own (symbol,
\* data_type); every other step keeps the entry and its payload.
C23_LazyExpiry ==
    [][\A k \in DOMAIN financial_cache :
          LET e == financial_cache[k]
          IN  /\ k \notin DOMAIN financial_cache' =>
                    /\ Called("get_cached_financial_data")
                    /\ ret'.symbol = e.symbol /\ ret'.data_type = e.data_type
                    /\ now >= e.expiry
              /\ (k \in DOMAIN financial_cache' /\ financial_cache'[k].data # e.data) =>
                    /\ Called("cache_financial_data")
                    /\ ret'.symbol = e.symbol /\ ret'.data_type = e.data_type]_vars

\* C23 with the cache key in the place of the pair: an entry leaves the cache only in a
\* get whose cache key is the key of the entry, at or after its expiry, and its payload
\* changes only in a put with that cache key.
C23_LazyExpiryByCacheKey ==
    [][\A k \in DOMAIN financial_cache :
          LET e == financial_cache[k]
          IN  /\ k \notin DOMAIN financial_cache' =>
                    /\ Called("get_cached_financial_data")
                    /\ CacheKey(ret'.symbol, ret'.data_type) = k
                    /\ now >= e.expiry
              /\ (k \in DOMAIN financial_cache' /\ financial_cache'[k].data # e.data) =>
                    /\ Called("cache_financial_data")
                    /\ CacheKey(ret'.symbol, ret'.data_type) = k]_vars

----------------------------------------------------------------------------
(* Virtual file store: write_file, read_file *)

MaxNowFiles == 1

FileTicks == {1}

\* the longest file_operations_log the model follows
MaxLog == 3

FileNames == {"f", "reports/aapl.md"}

FileContents == {"", "x", "BUY AAPL"}

FileTypes == {"file", "directory"}

\* the size of a written file is the length of another string than its content
FileSystemItem_SizeOfName(filename, content, file_type, t) ==
    [name |-> filename, content |-> content, type |-> file_type, created_at |-> t,
     updated_at |-> t, size |-> Len(filename), metadata |-> EmptyDict]

FileSystemItem(filename, content, file_type, t) ==
    [name |-> filename, content |-> content, type |-> file_type, created_at |-> t,
     updated_at |-> t, size |-> Len(content), metadata |-> EmptyDict]

\* the record of a write carries the length of the name
WriteRecord_SizeOfName(filename, content, t) ==
    [operation |-> "write", filename |-> filename, timestamp |-> t, size |-> Len(filename)]

\* the record write_file appends to the log
WriteRecord(filename, content, t) ==
    [operation |-> "write", filename |-> filename, timestamp |-> t, size |-> Len(content)]

write_file(filename, content, file_type) ==
    /\ files' = DictSet(files, filename, FileSystemItem(filename, content, file_type, now))
    /\ file_operations_log' = Append(file_operations_log,
                                     WriteRecord(filename, content, now))
    /\ last_activity' = now
    /\ ret' = [op |-> "write_file", filename |-> filename, content |-> content]
    /\ UNCHANGED <<now, other_session, limiter, todos, financial_cache, sub_agents, active_sub_agents,
                   iteration_count, max_iterations, SUB_AGENTS, last_put>>

\* file_item = state["files"].get(filename); "if file_item:" is the truth value of the
\* item, a dict
FileFound(fs, filename) == filename \in DOMAIN fs /\ Truthy(fs[filename])

\* a file whose content is empty reads as missing
ReadResult_EmptyIsMissing(fs, filename) ==
    IF FileFound(fs, filename) /\ fs[filename].content # ""
    THEN Some(fs[filename].content)
    ELSE None

\* what read_file returns
ReadResult(fs, filename) ==
    IF FileFound(fs, filename) THEN Some(fs[filename].content) ELSE None

\* a read is logged whether or not the file is there
LogAfterRead_LogsMiss(log, fs, filename, t) ==
    Append(log, [operation |-> "read", filename |-> filename, timestamp |-> t])

\* the log after read_file: a read that finds the file appends a record
LogAfterRead(log, fs, filename, t) ==
    IF FileFound(fs, filename)
    THEN Append(log, [operation |-> "read", filename |-> filename, timestamp |-> t])
    ELSE log

\* last_activity is not written
read_file(filename) ==
    /\ file_operations_log' = LogAfterRead(file_operations_log, files, filename, now)
    /\ ret' = [op |-> "read_file", filename |-> filename, val |-> ReadResult(files, filename)]
    /\ UNCHANGED <<now, other_session, limiter, todos, files, financial_cache, sub_agents, active_sub_agents,
                   iteration_count, max_iterations, last_activity, SUB_AGENTS, last_put>>

\* directory arguments list_files is tried with: none, one that is a prefix of a name,
\* one that matches no name
Directories == {None, Some("reports"), Some("archive")}

\* only a call without a directory lists the names
ListResult_NoneWithDirectory(fs, directory) ==
    IF directory = None THEN DOMAIN fs ELSE {}

\* list(state["files"].keys()): the keys of the store, as a set; the directory argument
\* is not read
ListResult(fs, directory) == DOMAIN fs

list_files(directory) ==
    /\ ret' = [op |-> "list_files", directory |-> directory,
               val |-> ListResult(files, directory)]
    /\ UNCHANGED <<now, other_session, limiter, stateVars, SUB_AGENTS, last_put>>

NextFiles ==
    \/ \E d \in FileTicks : Tick(d, MaxNowFiles)
    \/ \E dir \in Directories : list_files(dir)
    \/ /\ Len(file_operations_log) < MaxLog
       /\ \E f \in FileNames, c \in FileContents, t \in FileTypes : write_file(f, c, t)
    \/ \E f \in FileNames :
          /\ FileFound(files, f) => Len(file_operations_log) < MaxLog
          /\ read_file(f)

SpecFiles == Init /\ [][NextFiles]_vars

----------------------------------------------------------------------------
(* Claims on the file store *)

\* C7: a read_file(name) that is the next operation after write_file(name, content)
\* returns content, the empty content included, and the entry's size is the length of
\* content.
C7_WriteReadRoundTrip ==
    [][(ret.op = "write_file" /\ Called("read_file") /\ ret'.filename = ret.filename) =>
          /\ ret'.val = Some(ret.content)
          /\ files'[ret.filename].size = Len(ret.content)]_vars

\* the empty content was written to a file that held another content, and read back
C7_Witness ==
    /\ ret.op = "read_file"
    /\ ret.val = Some("")
    /\ Len(file_operations_log) = 3
    /\ file_operations_log[1].operation = "write"
    /\ file_operations_log[1].filename = ret.filename
    /\ file_operations_log[1].size > 0
    /\ file_operations_log[2].operation = "write"
    /\ file_operations_log[2].filename = ret.filename
    /\ file_operations_log[3].operation = "read"
    /\ file_operations_log[3].filename = ret.filename

\* C8: every entry of the file store has the length of its content as size, and its
\* key as name.
C8_SizeIsContentLength ==
    \A f \in DOMAIN files :
        /\ files[f].size = Len(files[f].content)
        /\ files[f].name = f

\* two files, one of them overwritten by a content of another length
C8_Witness ==
    /\ DOMAIN files = FileNames
    /\ \E i, j \in DOMAIN file_operations_log :
          /\ i < j
          /\ file_operations_log[i].operation = "write"
          /\ file_operations_log[j].operation = "write"
          /\ file_operations_log[i].filename = file_operations_log[j].filename
          /\ file_operations_log[i].size # file_operations_log[j].size
          /\ files[file_operations_log[j].filename].size = file_operations_log[j].size

\* C19: every step leaves the records of the log in place; write_file appends one
\* record with operation "write", the name and the length of the content written, and
\* stores that content; read_file of a file that is there appends one record with
\* operation "read" and the name; the file store changes only in a step that appends a
\* write record.
C19_LogIsAppendOnly ==
    [][LET n == Len(file_operations_log)
           grown == /\ Len(file_operations_log') = n + 1
                    /\ SubSeq(file_operations_log', 1, n) = file_operations_log
           last == file_operations_log'[n + 1]
       IN  /\ file_operations_log' = file_operations_log \/ grown
           /\ Called("write_file") =>
                 /\ grown
                 /\ last.operation = "write"
                 /\ last.filename = ret'.filename
                 /\ last.size = Len(ret'.content)
                 /\ last.timestamp = now
                 /\ files'[ret'.filename].content = ret'.content
           /\ (Called("read_file") /\ ret'.filename \in DOMAIN files) =>
                 /\ grown
                 /\ last.operation = "read"
                 /\ last.filename = ret'.filename
           /\ files' # files => (grown /\ last.operation = "write")
           /\ grown => (Called("write_file")
                          \/ (Called("read_file") /\ ret'.filename \in DOMAIN files))]_vars

\* a file was written, read, and written again with a content of another length
C19_Witness ==
    /\ Len(file_operations_log) = 3
    /\ file_operations_log[1].operation = "write"
    /\ file_operations_log[2].operation = "read"
    /\ file_operations_log[3].operation = "write"
    /\ file_operations_log[3].filename = file_operations_log[1].filename
    /\ file_operations_log[3].size # file_operations_log[1].size
    /\ files[file_operations_log[3].filename].size = file_operations_log[3].size

\* C20: read_file of a name that was never written returns None and leaves every
\* field of the session, the log included, as it was.
C20_MissingReadChangesNothing ==
    [][(Called("read_file") /\ ret'.filename \notin DOMAIN files) =>
          /\ ret'.val = None
          /\ UNCHANGED <<stateVars, SUB_AGENTS>>]_vars

\* a name that was never written was read, after another file was written and read
C20_Witness ==
    /\ ret.op = "read_file"
    /\ ret.filename \notin DOMAIN files
    /\ ret.val = None
    /\ files # EmptyDict
    /\ Len(file_operations_log) >= 2
    /\ now > 0

\* the names of the write records of the log: the log keeps every write (C19)
WrittenNames == {file_operations_log[i].filename :
                    i \in {j \in DOMAIN file_operations_log :
                              file_operations_log[j].operation = "write"}}

\* C21: list_files returns the set of the names written so far, whatever directory it
\* is given, and leaves every field of the session as it was; a second call right
\* after it returns the same set.
C21_ListIsAllNames ==
    [][Called("list_files") =>
          /\ ret'.val = WrittenNames
          /\ UNCHANGED <<stateVars, SUB_AGENTS>>
          /\ ret.op = "list_files" => ret'.val = ret.val]_vars

\* the names were listed under a directory that matches no name, with two files in
\* the store
C21_Witness ==
    /\ ret.op = "list_files"
    /\ ret.directory = Some("archive")
    /\ ret.val = FileNames
    /\ WrittenNames = FileNames

----------------------------------------------------------------------------
(* Task backlog: add_todo_item, update_todo_status *)

SecondsPerDay == 86400

MaxNowTodos == 86400

\* half a day
TodoTicks == {43200}

\* the longest backlog the model follows
MaxTodos == 2

\* the longest backlog the model follows over two days
MaxTodosClock == 3

Priorities == {"low", "medium", "high", "urgent"}

TodoStatuses == {"pending", "in_progress", "completed", "cancelled"}

\* an id no task has
MissingTodoId == "T99"

MetadataPatches == {None, Some(EmptyDict), Some([note |-> "x"])}

\* "%02d" % x
Pad2(x) == IF x < 10 THEN "0" \o ToString(x) ELSE ToString(x)

\* datetime.strftime('%H%M%S') of the time t seconds after a midnight
HHMMSS(t) ==
    LET s == t % SecondsPerDay
    IN  Pad2(s \div 3600) \o Pad2((s % 3600) \div 60) \o Pad2(s % 60)

\* the id is made of the time alone
TodoId_TimeOnly(n, t) == "todo_" \o HHMMSS(t)

\* f"todo_{len(state['todos']) + 1}_{datetime.now().strftime('%H%M%S')}", n being
\* len(state['todos']) + 1
TodoId(n, t) == "todo_" \o ToString(n) \o "_" \o HHMMSS(t)

TodoItem(id, task_text, priority, assigned_agent, dependencies, t) ==
    [id |-> id, task |-> task_text, status |-> "pending", created_at |-> t, updated_at |-> t,
     priority |-> priority, assigned_agent |-> assigned_agent,
     dependencies |-> dependencies, metadata |-> EmptyDict]

add_todo_item(task_text, priority, assigned_agent, dependencies) ==
    /\ todos' = Append(todos, TodoItem(TodoId(Len(todos) + 1, now), task_text, priority,
                                       assigned_agent, dependencies, now))
    /\ last_activity' = now
    /\ ret' = [op |-> "add_todo_item", id |-> TodoId(Len(todos) + 1, now)]
    /\ UNCHANGED <<now, other_session, limiter, files, file_operations_log, financial_cache, sub_agents,
                   active_sub_agents, iteration_count, max_iterations, SUB_AGENTS, last_put>>

\* the patch takes the place of the metadata
UpdatedTodo_ReplacesMetadata(todo, status, metadata, t) ==
    [todo EXCEPT !.status = status,
                 !.updated_at = t,
                 !.metadata = IF metadata # None /\ Truthy(metadata[1]) THEN metadata[1] ELSE @]

\* a completed or cancelled task keeps its status
UpdatedTodo_TerminalIsFinal(todo, status, metadata, t) ==
    [todo EXCEPT !.status = IF todo.status \in {"completed", "cancelled"} THEN @ ELSE status,
                 !.updated_at = t,
                 !.metadata = IF metadata # None /\ Truthy(metadata[1])
                              THEN DictUpdate(@, metadata[1])
                              ELSE @]

\* an update to the status the task already has cancels the task
UpdatedTodo_RepeatCancels(todo, status, metadata, t) ==
    [todo EXCEPT !.status = IF todo.status = status THEN "cancelled" ELSE status,
                 !.updated_at = t,
                 !.metadata = IF metadata # None /\ Truthy(metadata[1])
                              THEN DictUpdate(@, metadata[1])
                              ELSE @]

\* the todo as the loop body leaves it; metadata is an Optional[dict], and
\* "if metadata:" is false for None and for an empty dict
UpdatedTodo(todo, status, metadata, t) ==
    [todo EXCEPT !.status = status,
                 !.updated_at = t,
                 !.metadata = IF metadata # None /\ Truthy(metadata[1])
                              THEN DictUpdate(@, metadata[1])
                              ELSE @]

\* a cancelled task is taken out of the backlog
UpdatedTodos_CancelRemoves(ts, todo_id, status, metadata, t) ==
    IF status = "cancelled"
    THEN SelectSeq(ts, LAMBDA todo : todo.id # todo_id)
    ELSE [i \in DOMAIN ts |->
             IF ts[i].id = todo_id THEN UpdatedTodo(ts[i], status, metadata, t) ELSE ts[i]]

\* the loop updates every todo, whatever its id
UpdatedTodos_EveryTodo(ts, todo_id, status, metadata, t) ==
    [i \in DOMAIN ts |-> UpdatedTodo(ts[i], status, metadata, t)]

\* the loop over state["todos"]: the first todo whose id is todo_id is updated, then break
UpdatedTodos(ts, todo_id, status, metadata, t) ==
    LET hits == {i \in DOMAIN ts : ts[i].id = todo_id}
    IN  IF hits = {}
        THEN ts
        ELSE LET first == CHOOSE i \in hits : \A j \in hits : i <= j
             IN  [ts EXCEPT ![first] = UpdatedTodo(@, status, metadata, t)]

update_todo_status(todo_id, status, metadata) ==
    /\ todos' = UpdatedTodos(todos, todo_id, status, metadata, now)
    /\ last_activity' = now
    /\ ret' = [op |-> "update_todo_status", id |-> todo_id, status |-> status,
               metadata |-> metadata]
    /\ UNCHANGED <<now, other_session, limiter, files, file_operations_log, financial_cache, sub_agents,
                   active_sub_agents, iteration_count, max_iterations, SUB_AGENTS, last_put>>

TodoIds(ts) == {ts[i].id : i \in DOMAIN ts}

\* the calls of add_todo_item the model tries on the backlog ts: one with the default
\* arguments, one that depends on a task that is not there, one that depends on the
\* first task
AddRequests(ts) ==
    {[task |-> "analyze AAPL", priority |-> "medium", assigned_agent |-> None,
      dependencies |-> <<>>],
     [task |-> "assess risk", priority |-> "urgent", assigned_agent |-> Some("risk_assessor"),
      dependencies |-> <<MissingTodoId>>]}
    \cup {[task |-> "write report", priority |-> "high", assigned_agent |-> None,
            dependencies |-> <<ts[i].id>>] : i \in DOMAIN ts \cap {1}}

\* the backlog with every status and metadata patch, at one time of day
NextTodos ==
    \/ /\ Len(todos) < MaxTodos
       /\ \E r \in AddRequests(todos) :
             add_todo_item(r.task, r.priority, r.assigned_agent, r.dependencies)
    \/ \E id \in TodoIds(todos) \cup {MissingTodoId}, st \in TodoStatuses, md \in MetadataPatches :
          update_todo_status(id, st, md)

SpecTodos == Init /\ [][NextTodos]_vars

\* the backlog over two days: tasks are added and completed half a day apart
NextTodoClock ==
    \/ \E d \in TodoTicks : Tick(d, MaxNowTodos)
    \/ /\ Len(todos) < MaxTodosClock
       /\ \E r \in AddRequests(todos) :
             add_todo_item(r.task, r.priority, r.assigned_agent, r.dependencies)
    \/ \E id \in TodoIds(todos) : update_todo_status(id, "completed", None)

SpecTodoClock == Init /\ [][NextTodoClock]_vars

\* metadata patches whose values are dicts: two that share the key "note", one of
\* them with a second key
MaxTodosMerge == 2
MergePatches ==
    {None, Some(EmptyDict),
     Some([note |-> [text |-> "x"]]),
     Some([note |-> [author |-> "a"], owner |-> [team |-> "risk"]])}

\* the backlog with one patch after another on the same task
NextMerge ==
    \/ /\ Len(todos) < MaxTodosMerge
       /\ add_todo_item("analyze AAPL", "medium", None, <<>>)
    \/ \E id \in TodoIds(todos), st \in {"in_progress", "completed"}, md \in MergePatches :
          update_todo_status(id, st, md)

SpecMerge == Init /\ [][NextMerge]_vars

----------------------------------------------------------------------------
(* Claims on the task backlog *)

\* C9: the ids of the tasks of the backlog are pairwise distinct.
C9_TodoIdsDistinct ==
    \A i, j \in DOMAIN todos : i # j => todos[i].id # todos[j].id

\* two tasks added within the same second, and one added a day later at the same
\* time of day
C9_Witness ==
    \E i, j, k \in DOMAIN todos :
        /\ i < j /\ j < k
        /\ todos[i].created_at = todos[j].created_at
        /\ todos[j].created_at < todos[k].created_at
        /\ HHMMSS(todos[j].created_at) = HHMMSS(todos[k].created_at)
        /\ todos[i].status = "completed"

\* C10: update_todo_status on the id of a task of the backlog keeps the number and
\* the order of the tasks, leaves every other task as it was, and leaves the id, task,
\* dependencies, priority, assigned agent and creation time of that task as they were.
C10_UpdateFrame ==
    [][(Called("update_todo_status") /\ ret'.id \in TodoIds(todos)) =>
          /\ Len(todos') = Len(todos)
          /\ \A i \in DOMAIN todos :
                /\ todos'[i].id = todos[i].id
                /\ todos'[i].task = todos[i].task
                /\ todos'[i].dependencies = todos[i].dependencies
                /\ todos'[i].priority = todos[i].priority
                /\ todos'[i].assigned_agent = todos[i].assigned_agent
                /\ todos'[i].created_at = todos[i].created_at
                /\ todos[i].id # ret'.id => todos'[i] = todos[i]
                /\ todos[i].id = ret'.id => todos'[i].status = ret'.status]_vars

\* a task that depends on another was completed with a metadata patch, next to a task
\* that was never updated
C10_Witness ==
    /\ ret.op = "update_todo_status"
    /\ \E i, j \in DOMAIN todos :
          /\ todos[i].id = ret.id
          /\ todos[i].status = "completed"
          /\ todos[i].metadata # EmptyDict
          /\ todos[i].dependencies # <<>>
          /\ j # i
          /\ todos[j].status = "pending"
          /\ todos[j].updated_at = todos[j].created_at
          /\ todos[j].metadata = EmptyDict

----------------------------------------------------------------------------
(* Monitoring: get_state_summary and validate_state read the session *)

RECURSIVE Flatten(_)
\* the concatenation of a sequence of sequences, in order
Flatten(ss) == IF ss = <<>> THEN <<>> ELSE Head(ss) \o Flatten(Tail(ss))

\* len([t for t in state["todos"] if t["status"] == status])
CountStatus(ts, status) == Cardinality({i \in DOMAIN ts : ts[i].status = status})

\* the fields of the session that no operation of the state module writes after
\* create_initial_state: the user message is the only message, the status is
\* "initializing", the watchlist and the portfolio are empty
InitialAgentStatus == "initializing"
InitialMessageCount == 1

\* the dictionary get_state_summary returns (the session id, an input, is left out)
StateSummary_ActiveIsRegistered(ts, fs, registry, active, cache, i, m, la) ==
    [agent_status |-> InitialAgentStatus,
     iteration_count |-> i,
     max_iterations |-> m,
     message_count |-> InitialMessageCount,
     todo_count |-> Len(ts),
     pending_todos |-> CountStatus(ts, "pending"),
     active_todos |-> CountStatus(ts, "in_progress"),
     file_count |-> Cardinality(DOMAIN fs),
     sub_agent_count |-> Cardinality(DOMAIN registry),
     active_sub_agents |-> Cardinality(DOMAIN registry),
     cached_data_count |-> Cardinality(DOMAIN cache),
     watchlist_size |-> 0,
     portfolio_positions |-> 0,
     last_activity |-> la]

StateSummary(ts, fs, registry, active, cache, i, m, la) ==
    [agent_status |-> InitialAgentStatus,
     iteration_count |-> i,
     max_iterations |-> m,
     message_count |-> InitialMessageCount,
     todo_count |-> Len(ts),
     pending_todos |-> CountStatus(ts, "pending"),
     active_todos |-> CountStatus(ts, "in_progress"),
     file_count |-> Cardinality(DOMAIN fs),
     sub_agent_count |-> Cardinality(DOMAIN registry),
     active_sub_agents |-> Len(active),
     cached_data_count |-> Cardinality(DOMAIN cache),
     watchlist_size |-> 0,
     portfolio_positions |-> 0,
     last_activity |-> la]

\* the summary drops the cache entries that have expired
get_state_summary_Evicts ==
    /\ ret' = [op |-> "get_state_summary",
               val |-> StateSummary(todos, files, sub_agents, active_sub_agents,
                                    financial_cache, iteration_count, max_iterations,
                                    last_activity)]
    /\ financial_cache' = [k \in {x \in DOMAIN financial_cache : now < financial_cache[x].expiry}
                              |-> financial_cache[k]]
    /\ UNCHANGED <<now, other_session, limiter, todos, files, file_operations_log, sub_agents, active_sub_agents,
                   iteration_count, max_iterations, last_activity, SUB_AGENTS, last_put>>

get_state_summary ==
    /\ ret' = [op |-> "get_state_summary",
               val |-> StateSummary(todos, files, sub_agents, active_sub_agents,
                                    financial_cache, iteration_count, max_iterations,
                                    last_activity)]
    /\ UNCHANGED <<now, other_session, limiter, stateVars, SUB_AGENTS, last_put>>

\* the three kinds of issue validate_state reports
IterationIssue(i, m) == "Iteration limit reached: " \o ToString(i) \o "/" \o ToString(m)
OrphanIssue(todo_id, dep_id) == "TODO " \o todo_id \o " has orphaned dependency: " \o dep_id
ActiveIssue(agent_name) ==
    "Active sub-agent " \o agent_name \o " not found in sub_agents registry"

\* "if state['iteration_count'] >= state['max_iterations']"
IterationIssues(i, m) == IF i >= m THEN <<IterationIssue(i, m)>> ELSE <<>>

\* the inner loop of the dependency check: the dependencies of one task that are the
\* id of no task, in the order of the list
TodoOrphans_FirstOnly(todo, todo_ids) ==
    LET dangling == SelectSeq(todo.dependencies, LAMBDA dep_id : dep_id \notin todo_ids)
    IN  IF dangling = <<>> THEN <<>> ELSE <<OrphanIssue(todo.id, dangling[1])>>

TodoOrphans(todo, todo_ids) ==
    LET dangling == SelectSeq(todo.dependencies, LAMBDA dep_id : dep_id \notin todo_ids)
    IN  [j \in DOMAIN dangling |-> OrphanIssue(todo.id, dangling[j])]

\* the outer loop: the tasks in the order of the backlog
OrphanIssues(ts) == Flatten([i \in DOMAIN ts |-> TodoOrphans(ts[i], TodoIds(ts))])

\* the names of the active list that are no key of the registry, in the order of the list
ActiveIssues(active, registry) ==
    LET missing == SelectSeq(active, LAMBDA agent_name : agent_name \notin DOMAIN registry)
    IN  [j \in DOMAIN missing |-> ActiveIssue(missing[j])]

\* the list validate_state returns
ValidateIssues_ActiveFirst(ts, registry, active, i, m) ==
    IterationIssues(i, m) \o ActiveIssues(active, registry) \o OrphanIssues(ts)

ValidateIssues(ts, registry, active, i, m) ==
    IterationIssues(i, m) \o OrphanIssues(ts) \o ActiveIssues(active, registry)

validate_state ==
    /\ ret' = [op |-> "validate_state",
               val |-> ValidateIssues(todos, sub_agents, active_sub_agents,
                                      iteration_count, max_iterations)]
    /\ UNCHANGED <<now, other_session, limiter, stateVars, SUB_AGENTS, last_put>>

\* validate_state and get_state_summary take any session. No operation of the state
\* module writes iteration_count, max_iterations or active_sub_agents: max_iterations
\* is a parameter of create_initial_state and the owner of the session dictionary
\* assigns the other two. The sessions the functions are applied to start with these
\* three fields drawn from the sets below and everything else as create_initial_state
\* leaves it.
MaxTodosValidate == 2
MaxTodosSummary == 2
IterationInputs == {<<0, DefaultMaxIterations>>, <<1, 2>>, <<2, 2>>, <<3, 2>>}
ActiveLists == {<<>>, <<"stock_analyst">>, <<"unknown_agent", "stock_analyst">>,
                <<"unknown_agent", "unknown_agent">>}
OtherMissingTodoId == "T98"

InitMonitored ==
    /\ now = 0
    /\ todos = <<>>
    /\ files = EmptyDict
    /\ file_operations_log = <<>>
    /\ financial_cache = EmptyDict
    /\ sub_agents = EmptyDict
    /\ active_sub_agents \in ActiveLists
    /\ \E im \in IterationInputs : iteration_count = im[1] /\ max_iterations = im[2]
    /\ last_activity = now
    /\ SUB_AGENTS = <<>>
    /\ ret = [op |-> "create_initial_state"]
    /\ last_put = EmptyDict
    /\ other_session = InitialSession
    /\ limiter = InitialLimiter

\* the dependency lists the model gives a new task of the backlog ts: none, one or two
\* ids of no task, and the id of the first task before an id of no task
DependencyLists(ts) ==
    {<<>>, <<MissingTodoId>>, <<OtherMissingTodoId, MissingTodoId>>}
    \cup {<<ts[i].id, MissingTodoId>> : i \in DOMAIN ts \cap {1}}
    \cup {<<ts[i].id>> : i \in DOMAIN ts \cap {1}}

\* the state module defines no advance_iteration and no other function that assigns
\* iteration_count: a call of agent_state.advance_iteration(state) raises
\* AttributeError and the session stays as it was
advance_iteration ==
    /\ ret' = [op |-> "advance_iteration", raised |-> "AttributeError"]
    /\ UNCHANGED <<now, other_session, limiter, stateVars, SUB_AGENTS, last_put>>

\* validate_state on backlogs with dangling and resolved dependencies
NextValidate ==
    \/ /\ Len(todos) < MaxTodosValidate
       /\ \E deps \in DependencyLists(todos) : add_todo_item("analyze AAPL", "medium", None, deps)
    \/ \E n \in RegisterNames : register_sub_agent(n, "specialist", <<"get_stock_price">>)
    \/ validate_state
    \/ advance_iteration

SpecValidate == InitMonitored /\ [][NextValidate]_vars

\* get_state_summary on sessions with tasks in every status, a file, a cache entry
\* and a specialist
NextSummary ==
    \/ /\ Len(todos) < MaxTodosSummary
       /\ add_todo_item("analyze AAPL", "medium", None, <<>>)
    \/ \E id \in TodoIds(todos), st \in TodoStatuses : update_todo_status(id, st, None)
    \/ \E f \in FileNames :
          /\ f \notin DOMAIN files
          /\ write_file(f, "x", "file")
    \/ /\ financial_cache = EmptyDict
       /\ cache_financial_data("BRK", "price", [p |-> 100], 1)
    \/ \E n \in RegisterNames :
          /\ n \notin DOMAIN sub_agents
          /\ register_sub_agent(n, "specialist", <<"get_stock_price">>)
    \/ get_state_summary

SpecSummary == InitMonitored /\ [][NextSummary]_vars

\* every operation on one session over one minute: one task, one file, one cache entry
\* that expires within the minute, one specialist
MaxNowSession == 60
SessionTicks == {60}
MaxTodosSession == 1
MaxLogSession == 2

NextSession ==
    \/ \E d \in SessionTicks : Tick(d, MaxNowSession)
    \/ /\ Len(todos) < MaxTodosSession
       /\ add_todo_item("analyze AAPL", "medium", None, <<MissingTodoId>>)
    \/ \E id \in TodoIds(todos) \cup {MissingTodoId}, st \in {"completed", "cancelled"} :
          update_todo_status(id, st, None)
    \/ /\ Len(file_operations_log) < MaxLogSession
       /\ write_file("f", "x", "file")
    \/ \E f \in FileNames :
          /\ FileFound(files, f) => Len(file_operations_log) < MaxLogSession
          /\ read_file(f)
    \/ cache_financial_data("BRK", "price", [p |-> 100], 1)
    \/ get_cached_financial_data("BRK", "price")
    \/ register_sub_agent("stock_analyst", "specialist", <<"get_stock_price">>)
    \/ \E n \in RegisterNames : update_sub_agent_status(n, "completed", Some([rec |-> "BUY"]))
    \/ get_state_summary
    \/ validate_state

SpecSession == Init /\ [][NextSession]_vars

\* C28: update_todo_status on a task can be called with each of the four statuses
\* whatever the status of the task and of its dependencies, and the task has the
\* status of the call afterwards.
C28_NoLifecycle ==
    /\ [](\A i \in DOMAIN todos : \A st \in TodoStatuses :
             ENABLED update_todo_status(todos[i].id, st, None))
    /\ [][(Called("update_todo_status") /\ ret'.id \in TodoIds(todos)) =>
             \E i \in DOMAIN todos :
                /\ todos[i].id = ret'.id
                /\ todos'[i].status = ret'.status]_vars

\* a task was completed while the task it depends on is pending, and the last call
\* moved a task to "pending"
C28_Witness ==
    /\ ret.op = "update_todo_status"
    /\ ret.status = "pending"
    /\ Len(todos) = 2
    /\ todos[2].dependencies = <<todos[1].id>>
    /\ todos[2].status = "completed"
    /\ todos[1].status = "pending"
    /\ todos[1].dependencies = <<MissingTodoId>>

\* C22: update_todo_status on the id of a task merges the patch into the metadata of
\* the task key by key: afterwards every key of the patch has the value of the patch,
\* every other key of the metadata has the value it had, and there is no other key;
\* with an empty patch or none the metadata stays as it was.
C22_MetadataShallowMerge ==
    [][(Called("update_todo_status") /\ ret'.id \in TodoIds(todos)) =>
          LET i == CHOOSE x \in DOMAIN todos :
                      /\ todos[x].id = ret'.id
                      /\ \A y \in DOMAIN todos : todos[y].id = ret'.id => x <= y
              before == todos[i].metadata
              after == todos'[i].metadata
              patch == IF ret'.metadata = None THEN EmptyDict ELSE ret'.metadata[1]
          IN  /\ DOMAIN after = DOMAIN before \cup DOMAIN patch
              /\ \A k \in DOMAIN patch : after[k] = patch[k]
              /\ \A k \in DOMAIN before \ DOMAIN patch : after[k] = before[k]
              /\ patch = EmptyDict => after = before]_vars

\* a patch with the key "note" was merged into metadata that had "note" and "owner":
\* "note" has the value of the patch, whole, and "owner" is kept
C22_Witness ==
    /\ ret.op = "update_todo_status"
    /\ ret.metadata = Some([note |-> [text |-> "x"]])
    /\ \E i \in DOMAIN todos :
          /\ todos[i].id = ret.id
          /\ todos[i].metadata = [note |-> [text |-> "x"], owner |-> [team |-> "risk"]]

----------------------------------------------------------------------------
(* Claims on validate_state and get_state_summary *)

\* the dependency references of the backlog that are the id of no task: <<i, j>> is
\* the j-th dependency of the i-th task
Dangling(ts) ==
    UNION {{<<i, j>> : j \in {x \in DOMAIN ts[i].dependencies :
                                  \A k \in DOMAIN ts : ts[k].id # ts[i].dependencies[x]}}
           : i \in DOMAIN ts}

\* the entries of the active list that are no key of the registry
Unregistered(active, registry) == {k \in DOMAIN active : active[k] \notin DOMAIN registry}

\* the kind of an issue, by its text: 1 the iteration limit, 2 an orphaned
\* dependency, 3 an active specialist that is not registered
IsOrphanIssue(issue) ==
    \E i \in DOMAIN todos : \E j \in DOMAIN todos[i].dependencies :
        issue = OrphanIssue(todos[i].id, todos[i].dependencies[j])

IssueKind(issue) ==
    IF issue = IterationIssue(iteration_count, max_iterations) THEN 1
    ELSE IF IsOrphanIssue(issue) THEN 2
    ELSE IF \E k \in DOMAIN active_sub_agents : issue = ActiveIssue(active_sub_agents[k]) THEN 3
    ELSE 0

\* C13: the orphan issues validate_state returns are those of the pairs (T, D) where
\* D is a dependency of task T and the id of no task, one issue for each such
\* dependency reference, whose text holds the id of T and D.
C13_OrphanIssues ==
    ret.op = "validate_state" =>
        LET issues == ret.val
            orphans == {k \in DOMAIN issues : IsOrphanIssue(issues[k])}
        IN  /\ \A ij \in Dangling(todos) : \E k \in orphans :
                  issues[k] = OrphanIssue(todos[ij[1]].id, todos[ij[1]].dependencies[ij[2]])
            /\ \A k \in orphans : \E ij \in Dangling(todos) :
                  issues[k] = OrphanIssue(todos[ij[1]].id, todos[ij[1]].dependencies[ij[2]])
            /\ Cardinality(orphans) = Cardinality(Dangling(todos))

\* validate_state ran on a backlog of two tasks where the second depends on the first
\* and on two tasks that are not there
C13_Witness ==
    /\ ret.op = "validate_state"
    /\ Len(todos) = 2
    /\ \E d \in DependencyLists(todos) : d # <<>> /\ todos[1].dependencies = d
    /\ todos[2].dependencies = <<todos[1].id, MissingTodoId>>
    /\ Cardinality(Dangling(todos)) = 3
    /\ Cardinality({k \in DOMAIN ret.val : IsOrphanIssue(ret.val[k])}) = 3

\* C14: validate_state returns the empty list exactly when iteration_count is below
\* max_iterations, no dependency reference dangles and every entry of the active list
\* is registered; otherwise the list holds one issue for the iteration limit if it is
\* reached, one for each dangling dependency reference and one for each entry of the
\* active list that is not registered, in that order.
C14_ValidateIssues ==
    ret.op = "validate_state" =>
        LET issues == ret.val
            limit == IF iteration_count >= max_iterations THEN 1 ELSE 0
            ofKind(n) == {k \in DOMAIN issues : IssueKind(issues[k]) = n}
        IN  /\ issues = <<>> <=>
                  /\ iteration_count < max_iterations
                  /\ Dangling(todos) = {}
                  /\ Unregistered(active_sub_agents, sub_agents) = {}
            /\ Cardinality(ofKind(1)) = limit
            /\ Cardinality(ofKind(2)) = Cardinality(Dangling(todos))
            /\ Cardinality(ofKind(3)) = Cardinality(Unregistered(active_sub_agents, sub_agents))
            /\ ofKind(0) = {}
            /\ \A k, l \in DOMAIN issues : k < l => IssueKind(issues[k]) <= IssueKind(issues[l])

\* validate_state returned an issue of each kind, on a session whose active list
\* holds a registered and an unregistered name
C14_Witness ==
    /\ ret.op = "validate_state"
    /\ iteration_count >= max_iterations
    /\ Dangling(todos) # {}
    /\ Unregistered(active_sub_agents, sub_agents) # {}
    /\ \E k \in DOMAIN active_sub_agents : active_sub_agents[k] \in DOMAIN sub_agents
    /\ Len(ret.val) >= 3

\* validate_state returned no issue on a session with tasks, dependencies and active
\* specialists
C14_WitnessNoIssue ==
    /\ ret.op = "validate_state"
    /\ ret.val = <<>>
    /\ \E i \in DOMAIN todos : todos[i].dependencies # <<>>
    /\ active_sub_agents # <<>>

\* C27: a call of advance_iteration raises iteration_count by one, whether or not the
\* count has reached max_iterations, and raises no error.
C27_AdvanceIncrements ==
    [][Called("advance_iteration") =>
          /\ iteration_count' = iteration_count + 1
          /\ ret'.raised = ""]_vars

\* the other half of C27: with iteration_count at or above max_iterations the
\* operations of the session are still enabled, and validate_state reports the limit
C27_CeilingBlocksNothing ==
    iteration_count >= max_iterations =>
        /\ ENABLED add_todo_item("analyze AAPL", "medium", None, <<>>)
        /\ ENABLED register_sub_agent("stock_analyst", "specialist", <<"get_stock_price">>)
        /\ ENABLED write_file("f", "x", "file")
        /\ ENABLED validate_state
        /\ ret.op = "validate_state" =>
              ret.val[1] = IterationIssue(iteration_count, max_iterations)

\* the number of tasks of the backlog in a status
InStatus(status) == Len(SelectSeq(todos, LAMBDA t : t.status = status))

\* C16 as stated: the counts of tasks by status that get_state_summary reports add up
\* to the number of tasks it reports.
C16_StatusCountsAddUp ==
    ret.op = "get_state_summary" =>
        ret.val.pending_todos + ret.val.active_todos = ret.val.todo_count

\* C16 amended: get_state_summary reports the number of tasks, the number of pending
\* tasks and the number of in_progress tasks, and no count of the completed or of the
\* cancelled tasks, so that the two counts it reports add up to the number of tasks
\* less the completed and the cancelled ones; it reports the number of files, of
\* registered specialists, of entries of the active list and of cache entries, and
\* the iteration count with its ceiling.
C16_SummaryCounts ==
    ret.op = "get_state_summary" =>
        LET s == ret.val
        IN  /\ DOMAIN s = {"agent_status", "iteration_count", "max_iterations",
                           "message_count", "todo_count", "pending_todos", "active_todos",
                           "file_count", "sub_agent_count", "active_sub_agents",
                           "cached_data_count", "watchlist_size", "portfolio_positions",
                           "last_activity"}
            /\ s.todo_count = Len(todos)
            /\ s.pending_todos = InStatus("pending")
            /\ s.active_todos = InStatus("in_progress")
            /\ s.pending_todos + s.active_todos
                  = s.todo_count - InStatus("completed") - InStatus("cancelled")
            /\ s.file_count = Cardinality(DOMAIN files)
            /\ s.sub_agent_count = Cardinality(DOMAIN sub_agents)
            /\ s.active_sub_agents = Len(active_sub_agents)
            /\ s.cached_data_count = Cardinality(DOMAIN financial_cache)
            /\ s.iteration_count = iteration_count
            /\ s.max_iterations = max_iterations

\* the summary of a session with a completed and a pending task, two files, a cache
\* entry, and an active list that differs in length from the registry
C16_Witness ==
    /\ ret.op = "get_state_summary"
    /\ InStatus("completed") = 1
    /\ InStatus("pending") = 1
    /\ Cardinality(DOMAIN files) = 2
    /\ financial_cache # EmptyDict
    /\ Cardinality(DOMAIN sub_agents) = 1
    /\ Len(active_sub_agents) = 2
    /\ iteration_count >= max_iterations

----------------------------------------------------------------------------
(* Two sessions in one process: the same functions applied to the state of a second
   session, and the one module-level SUB_AGENTS its delegation tool reads *)

MaxTodosIsolation == 1
MaxLogIsolation == 1

\* the second session after a call of an operation of the state module on it. task is
\* handed no session and writes none
OtherSessionAfter(o, call, t) ==
    CASE call.op = "add_todo_item" ->
            [o EXCEPT !.todos = Append(@, TodoItem(TodoId(Len(@) + 1, t), call.task, "medium",
                                                   None, <<>>, t)),
                      !.last_activity = t]
      [] call.op = "update_todo_status" ->
            [o EXCEPT !.todos = UpdatedTodos(@, call.todo_id, call.status, None, t),
                      !.last_activity = t]
      [] call.op = "write_file" ->
            [o EXCEPT !.files = DictSet(@, call.filename,
                                        FileSystemItem(call.filename, call.content, "file", t)),
                      !.file_operations_log =
                          Append(@, WriteRecord(call.filename, call.content, t)),
                      !.last_activity = t]
      [] call.op = "read_file" ->
            [o EXCEPT !.file_operations_log = LogAfterRead(@, o.files, call.filename, t)]
      [] call.op = "cache_financial_data" ->
            [o EXCEPT !.financial_cache =
                          DictSet(@, CacheKey(call.symbol, call.data_type),
                                  FinancialDataCache(call.symbol, call.data_type, call.data,
                                                     t, call.expiry_minutes)),
                      !.last_activity = t]
      [] call.op = "get_cached_financial_data" ->
            [o EXCEPT !.financial_cache = CacheAfterGet(@, call.symbol, call.data_type, t)]
      [] call.op = "register_sub_agent" ->
            [o EXCEPT !.sub_agents = Registered(@, call.name, "specialist",
                                                <<"get_stock_price">>, t),
                      !.last_activity = t]
      [] call.op = "update_sub_agent_status" ->
            [o EXCEPT !.sub_agents = UpdatedSubAgents(@, call.agent_name, call.status,
                                                      call.results, t),
                      !.last_activity = t]
      [] call.op = "task" -> o

\* what the call returns: the functions that return the state are given None here
OtherCallResult(o, call, registry, t) ==
    CASE call.op = "read_file" -> ReadResult(o.files, call.filename)
      [] call.op = "get_cached_financial_data" ->
            CachedData(o.financial_cache, call.symbol, call.data_type, t)
      [] call.op = "task" ->
            Some(TaskResult(registry, call.agent_name, call.task_description, call.outcome))
      [] OTHER -> None

\* the agent of the second session calls an operation: the state functions are handed
\* the state of that session, task is the one tool of the module
in_other_session(call) ==
    /\ other_session' = OtherSessionAfter(other_session, call, now)
    /\ ret' = [op |-> "other_session", call |-> call,
               val |-> OtherCallResult(other_session, call, SUB_AGENTS, now)]
    /\ UNCHANGED <<now, stateVars, SUB_AGENTS, last_put, limiter>>

DelegationOutcome == [raised |-> FALSE, error |-> "", result |-> [messages |-> <<Some("rec: BUY")>>]]

NextOtherSession ==
    \/ /\ Len(other_session.todos) < MaxTodosIsolation
       /\ in_other_session([op |-> "add_todo_item", task |-> "assess risk"])
    \/ \E id \in TodoIds(other_session.todos) \cup TodoIds(todos) :
          in_other_session([op |-> "update_todo_status", todo_id |-> id, status |-> "completed"])
    \/ /\ Len(other_session.file_operations_log) < MaxLogIsolation
       /\ in_other_session([op |-> "write_file", filename |-> "f", content |-> "BUY AAPL"])
    \/ /\ FileFound(other_session.files, "f") =>
             Len(other_session.file_operations_log) < MaxLogIsolation
       /\ in_other_session([op |-> "read_file", filename |-> "f"])
    \/ in_other_session([op |-> "cache_financial_data", symbol |-> "BRK", data_type |-> "price",
                         data |-> [p |-> 101], expiry_minutes |-> 0])
    \/ in_other_session([op |-> "get_cached_financial_data", symbol |-> "BRK",
                         data_type |-> "price"])
    \/ in_other_session([op |-> "register_sub_agent", name |-> "unknown_agent"])
    \/ \E n \in RegisterNames :
          in_other_session([op |-> "update_sub_agent_status", agent_name |-> n,
                            status |-> "completed", results |-> Some([rec |-> "BUY"])])
    \/ \E n \in DelegateNames :
          in_other_session([op |-> "task", agent_name |-> n,
                            task_description |-> "analyze AAPL", outcome |-> DelegationOutcome])

\* the two sessions side by side, at one clock value
NextIsolation ==
    \/ NextOtherSession
    \/ \E k \in {0, Len(SpecialistNames)} : initialize_sub_agents(k)
    \/ /\ Len(todos) < MaxTodosIsolation
       /\ add_todo_item("analyze AAPL", "medium", None, <<>>)
    \/ \E id \in TodoIds(todos) \cup TodoIds(other_session.todos) :
          update_todo_status(id, "completed", None)
    \/ /\ Len(file_operations_log) < MaxLogIsolation
       /\ write_file("f", "x", "file")
    \/ /\ FileFound(files, "f") => Len(file_operations_log) < MaxLogIsolation
       /\ read_file("f")
    \/ cache_financial_data("BRK", "price", [p |-> 100], 1)
    \/ get_cached_financial_data("BRK", "price")
    \/ register_sub_agent("stock_analyst", "specialist", <<"get_stock_price">>)
    \/ \E n \in RegisterNames : update_sub_agent_status(n, "completed", Some([rec |-> "BUY"]))
    \/ \E n \in DelegateNames : task(n, "analyze AAPL", DelegationOutcome)

SpecIsolation == Init /\ [][NextIsolation]_vars

\* the four collections of the first session
ownCollections == <<todos, files, financial_cache, sub_agents>>

\* the four collections of the second session
OtherCollections(o) == <<o.todos, o.files, o.financial_cache, o.sub_agents>>

\* C25: a call on one session changes none of the four collections of the other, and
\* a delegation from the second session does not reach a specialist that was
\* registered for the first session only.
C25_SessionsIsolated ==
    [][/\ ret'.op = "other_session" => ownCollections' = ownCollections
       /\ ret'.op # "other_session" =>
             OtherCollections(other_session') = OtherCollections(other_session)
       /\ (/\ ret'.op = "other_session"
           /\ ret'.call.op = "task"
           /\ ret'.call.agent_name \in DOMAIN sub_agents
           /\ ret'.call.agent_name \notin DOMAIN other_session.sub_agents) =>
             ret'.val[1].kind = "not_found"]_vars

\* C25 without delegation: a call on one session changes none of the four collections
\* of the other.
C25_CollectionsIsolated ==
    [][/\ ret'.op = "other_session" => ownCollections' = ownCollections
       /\ ret'.op # "other_session" =>
             OtherCollections(other_session') = OtherCollections(other_session)]_vars

----------------------------------------------------------------------------
(* Calls repeated at one clock value *)

MaxTodosRepeat == 1
MaxLogRepeat == 3

\* every operation of the session with the clock standing still, so that two calls in
\* a row are two calls at the same clock value; an entry put with 0 minutes has expired
\* at once
NextRepeat ==
    \/ /\ Len(todos) < MaxTodosRepeat
       /\ add_todo_item("analyze AAPL", "medium", None, <<MissingTodoId>>)
    \/ \E id \in TodoIds(todos) \cup {MissingTodoId}, st \in {"in_progress", "completed"},
          md \in {None, Some([note |-> [text |-> "x"]])} :
          update_todo_status(id, st, md)
    \/ /\ Len(file_operations_log) < MaxLogRepeat
       /\ write_file("f", "x", "file")
    \/ \E f \in FileNames :
          /\ FileFound(files, f) => Len(file_operations_log) < MaxLogRepeat
          /\ read_file(f)
    \/ \E dir \in {None, Some("reports")} : list_files(dir)
    \/ \E e \in {0, 1} : cache_financial_data("BRK", "price", [p |-> 100], e)
    \/ get_cached_financial_data("BRK", "price")
    \/ register_sub_agent("stock_analyst", "specialist", <<"get_stock_price">>)
    \/ update_sub_agent_status("stock_analyst", "completed", Some([rec |-> "BUY"]))
    \/ get_state_summary
    \/ validate_state

SpecRepeat == Init /\ [][NextRepeat]_vars

IdempotentOps ==
    {"update_todo_status", "read_file", "list_files", "get_cached_financial_data",
     "register_sub_agent", "get_state_summary", "validate_state"}

\* the arguments of the call r records
ArgsOf(r) ==
    CASE r.op = "update_todo_status" -> <<r.id, r.status, r.metadata>>
      [] r.op = "read_file" -> <<r.filename>>
      [] r.op = "list_files" -> <<r.directory>>
      [] r.op = "get_cached_financial_data" -> <<r.symbol, r.data_type>>
      [] r.op = "register_sub_agent" -> <<r.agent>>
      [] OTHER -> <<>>

\* what the call r records returned; the functions that return the state are given None
ResultOf(r) ==
    IF r.op \in {"read_file", "list_files", "get_cached_financial_data",
                 "get_state_summary", "validate_state"}
    THEN Some(r.val)
    ELSE None

\* this step repeats the call before it: the same operation with the same arguments
Repeats == ret.op \in IdempotentOps /\ ret'.op = ret.op /\ ArgsOf(ret') = ArgsOf(ret)

\* C26 as stated: a call of update_todo_status, read_file, list_files,
\* get_cached_financial_data, register_sub_agent, get_state_summary or validate_state
\* that repeats the call before it leaves the session as it was and returns the same.
C26_RepeatChangesNothing ==
    [][Repeats => (stateVars' = stateVars /\ ResultOf(ret') = ResultOf(ret))]_vars

\* C26 amended: such a repeated call returns the same and leaves the session as it was,
\* except that read_file of a file that is in the store appends one more read record
\* to the log, equal to the one before it, and changes nothing else.
C26_RepeatChangesOnlyReadLog ==
    [][Repeats =>
          /\ ResultOf(ret') = ResultOf(ret)
          /\ IF ret'.op = "read_file" /\ ret'.filename \in DOMAIN files
             THEN /\ file_operations_log' =
                        Append(file_operations_log,
                               file_operations_log[Len(file_operations_log)])
                  /\ file_operations_log[Len(file_operations_log)].operation = "read"
                  /\ UNCHANGED <<todos, files, financial_cache, sub_agents, active_sub_agents,
                                 iteration_count, max_iterations, last_activity>>
             ELSE stateVars' = stateVars]_vars

\* a file was read twice in a row: the log ends with two equal read records
C26_Witness ==
    /\ ret.op = "read_file"
    /\ Len(file_operations_log) = 3
    /\ file_operations_log[3].operation = "read"
    /\ file_operations_log[2] = file_operations_log[3]
    /\ todos # <<>>
    /\ sub_agents # EmptyDict

----------------------------------------------------------------------------
(* The rate limiter of financial_tools.py around get_stock_price.
   limiter.time         time.time(), in seconds
   limiter.last_called  last_called[0], shared by all callers of the wrapper
   limiter.pc           for each thread inside the wrapper, where it is: "sleep" from
                        the read of last_called to the call of func (wake is the time
                        its sleep ends, the time of the read when it does not sleep),
                        "func" inside the wrapped function (call is its place in calls)
   limiter.calls        the calls of the wrapped function, in the order they started:
                        thread, start and, once returned, end *)

CallsPerMinute == 4
FuncSeconds == 2
MaxLimiterTime == 140
MaxCalls == 3
LimiterTicks == {5}
LimiterThreads == {"t1", "t2"}

\* min_interval = 60.0 / calls_per_minute
MinInterval == SecondsPerMinute \div CallsPerMinute

\* left_to_wait = min_interval - (time.time() - last_called[0]); the sleep, if any,
\* ends left_to_wait later
WakeTime(time, last_called) ==
    LET left_to_wait == MinInterval - (time - last_called)
    IN  IF left_to_wait > 0 THEN time + left_to_wait ELSE time

limiter_tick(d) ==
    /\ limiter.time + d <= MaxLimiterTime
    /\ limiter' = [limiter EXCEPT !.time = @ + d]
    /\ UNCHANGED <<now, stateVars, SUB_AGENTS, ret, last_put, other_session>>

\* a thread enters the wrapper and reads last_called
wrapper_enter(th) ==
    /\ th \notin DOMAIN limiter.pc
    /\ limiter' = [limiter EXCEPT
                      !.pc = DictSet(@, th, [at |-> "sleep",
                                             wake |-> WakeTime(limiter.time, limiter.last_called),
                                             call |-> 0])]
    /\ UNCHANGED <<now, stateVars, SUB_AGENTS, ret, last_put, other_session>>

\* its sleep over, the thread calls the wrapped function
func_call(th) ==
    /\ th \in DOMAIN limiter.pc
    /\ limiter.pc[th].at = "sleep"
    /\ limiter.time >= limiter.pc[th].wake
    /\ limiter' = [limiter EXCEPT
                      !.calls = Append(@, [thread |-> th, start |-> limiter.time, end |-> None]),
                      !.pc = DictSet(@, th, [at |-> "func", wake |-> limiter.pc[th].wake,
                                             call |-> Len(limiter.calls) + 1])]
    /\ UNCHANGED <<now, stateVars, SUB_AGENTS, ret, last_put, other_session>>

\* the wrapped function returns, FuncSeconds or more after it was called
\* (time.sleep(2) and the request), and the wrapper stores the time in last_called
func_return(th) ==
    /\ th \in DOMAIN limiter.pc
    /\ limiter.pc[th].at = "func"
    /\ limiter.time >= limiter.calls[limiter.pc[th].call].start + FuncSeconds
    /\ limiter' = [limiter EXCEPT
                      !.calls[limiter.pc[th].call].end = Some(limiter.time),
                      !.last_called = limiter.time,
                      !.pc = DictDel(@, th)]
    /\ ret' = [op |-> "get_stock_price", thread |-> th]
    /\ UNCHANGED <<now, stateVars, SUB_AGENTS, last_put, other_session>>

NextRateLimit(threads) ==
    \/ \E d \in LimiterTicks : limiter_tick(d)
    \/ \E th \in threads :
          /\ Len(limiter.calls) + Cardinality(DOMAIN limiter.pc) < MaxCalls
          /\ wrapper_enter(th)
    \/ \E th \in threads : func_call(th)
    \/ \E th \in threads : func_return(th)

\* the tool called from the threads of the runtime's pool
SpecRateLimit == Init /\ [][NextRateLimit(LimiterThreads)]_vars

\* the tool called by one thread, one call after the other
SpecRateLimitOneCaller == Init /\ [][NextRateLimit({"t1"})]_vars

\* C29: of two calls of the wrapped function, the later one starts MinInterval seconds
\* or more after the earlier one has returned.
C29_CallsAreSpaced ==
    \A i, j \in DOMAIN limiter.calls :
        i < j =>
            /\ limiter.calls[i].end # None
            /\ limiter.calls[j].start >= limiter.calls[i].end[1] + MinInterval

----------------------------------------------------------------------------
(* The planning tool write_todos of todo_planning_agent.py. The text it is given is
   modelled line by line, a line as the sequence of its words; a blank line has none. *)

MaxLines == 3

\* the lines the tool is tried on: the forms of the TODO list format of the system
\* message, a tag in lower case, a line without a tag and a blank line
TodoLines ==
    {<<"1.", "[HIGH]", "Gather">>,
     <<"[MEDIUM]", "Calculate">>,
     <<"[low]", "Chart">>,
     <<"[URGENT]", "Compile">>,
     <<"Review">>,
     <<>>}

TodoTexts == UNION {[1..n -> TodoLines] : n \in 0..MaxLines}

\* str.upper() on the words of TodoLines
Upper(word) ==
    CASE word = "[low]" -> "[LOW]"
      [] word = "Gather" -> "GATHER"
      [] word = "Calculate" -> "CALCULATE"
      [] word = "Chart" -> "CHART"
      [] word = "Compile" -> "COMPILE"
      [] word = "Review" -> "REVIEW"
      [] OTHER -> word

\* "[TAG]" in line.upper()
HasTag(line, tag) == \E k \in DOMAIN line : Upper(line[k]) = tag

\* the if / elif chain: a line with [URGENT] is taken by the first test, the elif
\* that gives "urgent" comes after it
LinePriority(line) ==
    IF HasTag(line, "[HIGH]") \/ HasTag(line, "[URGENT]") THEN "high"
    ELSE IF HasTag(line, "[LOW]") THEN "low"
    ELSE IF HasTag(line, "[URGENT]") THEN "urgent"
    ELSE "medium"

\* line.replace("[HIGH]", "").replace("[LOW]", "").replace("[URGENT]", "").strip(),
\* then without a leading "<i>."
CleanLine(line, i) ==
    LET kept == SelectSeq(line, LAMBDA w : w \notin {"[HIGH]", "[LOW]", "[URGENT]"})
    IN  IF kept # <<>> /\ kept[1] = ToString(i) \o "." THEN Tail(kept) ELSE kept

\* structured_todos for the text: one item for each line that is not blank
StructuredTodos(text) ==
    LET todo_lines == SelectSeq(text, LAMBDA line : line # <<>>)
    IN  [i \in DOMAIN todo_lines |->
            [id |-> "todo_" \o ToString(i),
             task |-> CleanLine(todo_lines[i], i),
             priority |-> LinePriority(todo_lines[i]),
             status |-> "pending",
             data_source |-> "Will use real YFinance data"]]

\* the tool keeps the items in a local list and returns a sentence with their number
\* (the sentence is written here without its leading check mark)
write_todos(text) ==
    /\ ret' = [op |-> "write_todos", todos |-> text, items |-> StructuredTodos(text),
               val |-> "Created " \o ToString(Len(StructuredTodos(text))) \o
                       " TODO items for financial analysis workflow using real market data"]
    /\ UNCHANGED <<now, other_session, limiter, stateVars, SUB_AGENTS, last_put>>

NextPlanning == \E text \in TodoTexts : write_todos(text)

SpecPlanning == Init /\ [][NextPlanning]_vars

\* the lines of the text that are not blank, in order
NonBlank(text) == SelectSeq(text, LAMBDA line : line # <<>>)

\* the priority a line names by its tag
TagPriority(line) ==
    IF \E k \in DOMAIN line : line[k] \in {"[URGENT]", "[urgent]"} THEN "urgent"
    ELSE IF \E k \in DOMAIN line : line[k] \in {"[HIGH]", "[high]"} THEN "high"
    ELSE IF \E k \in DOMAIN line : line[k] \in {"[LOW]", "[low]"} THEN "low"
    ELSE "medium"

\* C30: write_todos makes one item for each line that is not blank, in the order of
\* the lines, with id todo_<position>, status "pending" and the priority the tag of
\* the line names ([URGENT] urgent, [HIGH] high, [LOW] low, no such tag medium), and
\* the number it returns is the number of those lines.
C30_PriorityByTag ==
    ret.op = "write_todos" =>
        LET lines == NonBlank(ret.todos)
        IN  /\ Len(ret.items) = Len(lines)
            /\ ret.val = "Created " \o ToString(Len(lines)) \o
                           " TODO items for financial analysis workflow using real market data"
            /\ \A i \in DOMAIN lines :
                  /\ ret.items[i].id = "todo_" \o ToString(i)
                  /\ ret.items[i].status = "pending"
                  /\ ret.items[i].priority = TagPriority(lines[i])

\* C30 but for [URGENT]: the same, with a line tagged [URGENT] given "high"
C30_UrgentIsHigh ==
    ret.op = "write_todos" =>
        LET lines == NonBlank(ret.todos)
        IN  /\ Len(ret.items) = Len(lines)
            /\ \A i \in DOMAIN lines :
                  /\ ret.items[i].id = "todo_" \o ToString(i)
                  /\ ret.items[i].status = "pending"
                  /\ ret.items[i].priority =
                        IF TagPriority(lines[i]) = "urgent" THEN "high"
                        ELSE TagPriority(lines[i])

----------------------------------------------------------------------------
(* Claims on the whole session *)

\* the collections of the session
collections == <<todos, files, file_operations_log, financial_cache, sub_agents>>

\* C11: every operation that changes the backlog, the file store, the file operation
\* log, the cache or the registry sets last_activity to the time of that operation.
C11_MutationRefreshesActivity ==
    [][(now' = now /\ collections' # collections) => last_activity' = now]_vars

UnknownTodoUpdate == Called("update_todo_status") /\ ret'.id \notin TodoIds(todos)

UnknownAgentUpdate == Called("update_sub_agent_status") /\ ret'.agent \notin DOMAIN sub_agents

\* C12 as stated: update_todo_status with the id of no task, and update_sub_agent_status
\* with the name of no registered specialist, leave every field of the session as it was.
C12_UnknownIdChangesNothing ==
    [][(UnknownTodoUpdate \/ UnknownAgentUpdate) => UNCHANGED stateVars]_vars

\* C12 amended: update_todo_status with the id of no task, and update_sub_agent_status
\* with the name of no registered specialist, leave every field of the session as it
\* was except last_activity, which becomes the time of the call.
C12_UnknownIdChangesOnlyActivity ==
    [][(UnknownTodoUpdate \/ UnknownAgentUpdate) =>
          /\ UNCHANGED <<todos, files, file_operations_log, financial_cache, sub_agents,
                         active_sub_agents, iteration_count, max_iterations>>
          /\ last_activity' = now]_vars

\* an unknown specialist was marked, a minute into a session that has a task, a file
\* and a registered specialist
C12_Witness ==
    /\ ret.op = "update_sub_agent_status"
    /\ ret.agent \notin DOMAIN sub_agents
    /\ sub_agents # EmptyDict
    /\ todos # <<>>
    /\ files # EmptyDict
    /\ now > 0
    /\ last_activity = now

\* C15: validate_state and get_state_summary leave every field of the session as it
\* was, last_activity, the file operation log and the cache included.
C15_MonitoringIsReadOnly ==
    [][(Called("validate_state") \/ Called("get_state_summary")) =>
          UNCHANGED <<stateVars, SUB_AGENTS>>]_vars

\* one of the two ran on a session that holds an expired cache entry and a logged
\* file operation, after the last activity
C15_Witness ==
    /\ ret.op \in {"validate_state", "get_state_summary"}
    /\ \E k \in DOMAIN financial_cache : now >= financial_cache[k].expiry
    /\ file_operations_log # <<>>
    /\ last_activity < now

\* C24: no step takes a task out of the backlog, a name out of the file store or a
\* name out of the registry: the tasks keep their ids and their places, and the keys
\* of the store and of the registry stay.
C24_NothingRemoved ==
    [][/\ Len(todos') >= Len(todos)
       /\ \A i \in DOMAIN todos : todos'[i].id = todos[i].id
       /\ DOMAIN files \subseteq DOMAIN files'
       /\ DOMAIN sub_agents \subseteq DOMAIN sub_agents']_vars

\* a task was cancelled, a minute into a session that has a file and a specialist: the
\* task is in the backlog, with status "cancelled"
C24_Witness ==
    /\ ret.op = "update_todo_status"
    /\ ret.status = "cancelled"
    /\ \E i \in DOMAIN todos : todos[i].id = ret.id /\ todos[i].status = "cancelled"
    /\ files # EmptyDict
    /\ sub_agents # EmptyDict
    /\ now > 0

----------------------------------------------------------------------------
(* The whole session: every operation, within the bounds of the components *)

Next ==
    \/ NextDelegation
    \/ NextCache
    \/ NextFiles
    \/ NextTodos
    \/ NextTodoClock
    \/ NextValidate
    \/ NextSummary
    \/ NextSession
    \/ NextIsolation
    \/ NextRepeat
    \/ NextRateLimit(LimiterThreads)
    \/ NextPlanning
    \/ NextMerge

Spec == Init /\ [][Next]_vars

====
